---- MODULE Spec2Model ----
(***************************************************************************)
(* Crossing-time search of celespy/astro/astrofunc.py: getTransit and the  *)
(* wrappers riseTime, setTime and meridianTime.                            *)
(*                                                                         *)
(* Instants are integer seconds.  Angles are integer millidegrees, so the  *)
(* target given in degrees is multiplied by 1000 before it is compared.    *)
(* The returned instant time + smalldt/2 is not an integer number of       *)
(* seconds: transit_time holds it in half seconds (2*time + smalldt).      *)
(***************************************************************************)
EXTENDS Integers, FiniteSets, Sequences, TLC

(* ---- step schedule of getTransit ---- *)
bigdt == 1800
middt == 300
smalldt == 5
day == 86400

(* ---- bounds of the model ---- *)
\* the loops of getTransit have no exit but break: the model stops stepping
\* after this many iterations of one loop
MaxCoarse == 51
MaxMid == 8
MaxFine == 62
\* calls a client makes one after the other with the same source and time
MaxCalls == 2

(* ---- synthetic evaluators (the transform behind getAltaz) ---- *)
Sources == {"sine", "sineFP", "circumpolar", "moon", "flicker"}
Starts == {0, 600, 50003}

\* amp * sin(pi * t / H) in integers (parabolic arcs): zero exactly at the
\* multiples of H, positive on (0, H), negative on (H, 2H)
Sine(t, H, amp) ==
    LET u == t % (2 * H)
        D == ((H \div 2) * (H \div 2)) \div amp
    IN  IF u <= H THEN (u * (H - u)) \div D
        ELSE 0 - (((u - H) * (2 * H - u)) \div D)

\* the same channel as a floating-point evaluator gives it: sin(pi) and
\* sin(2 pi) are not zero but one unit above and below it
SineFP(t, H, amp) ==
    IF t % (2 * H) = H THEN 1
    ELSE IF t > 0 /\ t % (2 * H) = 0 THEN 0 - 1
    ELSE Sine(t, H, amp)

\* a discontinuous channel that changes sign faster than the coarse step:
\* amp, then a plateau at 0, then -amp, with period 1500 s
Square(t, amp) ==
    LET u == t % 1500
    IN  IF u < 700 THEN amp ELSE IF u < 900 THEN 0 ELSE 0 - amp

\* az and alt, in millidegrees, of the source at instant t
getAltaz(source, t) ==
    CASE source = "sine" ->
           [az  |-> (((t + 600) * 25) \div 6) % 360000,
            alt |-> Sine(t, 43200, 45000)]
      [] source = "sineFP" ->
           [az  |-> (((t + 600) * 25) \div 6) % 360000,
            alt |-> SineFP(t, 43200, 45000)]
      [] source = "circumpolar" ->
           [az  |-> (360000 + Sine(t, 43200, 40000)) % 360000,
            alt |-> 50000 + Sine(t, 43200, 30000)]
      [] source = "moon" ->
           [az  |-> ((t * 3600) \div 894) % 360000,
            alt |-> Sine(t, 44700, 45000)]
      [] source = "flicker" ->
           [az  |-> (t * 240) % 360000,
            alt |-> Square(t, 10000)]

(* ---- optional arguments: {} is None, {x} is the value x ---- *)
None == {}
Some(x) == {x}
Val(o) == CHOOSE x \in o : TRUE
Deg(x) == x * 1000

\* (az, el, way) of the direct getTransit calls the client makes
Args == {<<Some(180), None, "rise">>, <<Some(180), None, "set">>,
         <<None, Some(0), "rise">>, <<None, Some(0), "set">>,
         <<None, Some(20), "rise">>, <<None, Some(20), "set">>,
         <<None, None, "rise">>, <<Some(180), Some(0), "set">>,
         <<None, Some(0), "up">>}

VARIABLES source, tstart, fn, az, el, way, pc, time, nCoarse, nMid, nFine,
          calls, tCoarse, tMid, transit_time, done

vars == <<source, tstart, fn, az, el, way, pc, time, nCoarse, nMid, nFine,
          calls, tCoarse, tMid, transit_time, done>>

(* ---- the tests of getTransit ---- *)
\* Branch without the "is None" tests on the other argument
Branch_NoNoneTest(a, e) ==
    IF a # None THEN "az"
    ELSE IF e # None THEN "el"
    ELSE "else"

\* which arm of the if / elif / else of a loop body is taken
Branch(a, e) ==
    IF a # None /\ e = None THEN "az"
    ELSE IF e # None /\ a = None THEN "el"
    ELSE "else"

\* the channel sampled by the arm: .az.deg or .alt.deg
Channel(src, t, b) ==
    IF b = "az" THEN getAltaz(src, t).az ELSE getAltaz(src, t).alt

\* Crossing with way applied to an azimuth target too
Crossing_WayOnAz(a, e, w, c1, c2) ==
    LET tgt == IF Branch(a, e) = "az" THEN Deg(Val(a)) ELSE Deg(Val(e))
    IN  /\ Branch(a, e) # "else"
        /\ IF w = "rise" THEN c1 <= tgt /\ tgt <= c2
           ELSE IF w = "set" THEN c2 <= tgt /\ tgt <= c1
           ELSE FALSE

\* Crossing with the rise and set tests exchanged
Crossing_Swapped(a, e, w, c1, c2) ==
    CASE Branch(a, e) = "az" -> c1 <= Deg(Val(a)) /\ Deg(Val(a)) <= c2
      [] Branch(a, e) = "el" ->
           IF w = "rise" THEN c2 <= Deg(Val(e)) /\ Deg(Val(e)) <= c1
           ELSE IF w = "set" THEN c1 <= Deg(Val(e)) /\ Deg(Val(e)) <= c2
           ELSE FALSE
      [] OTHER -> FALSE

\* Crossing with strict comparisons
Crossing_Strict(a, e, w, c1, c2) ==
    CASE Branch(a, e) = "az" -> c1 < Deg(Val(a)) /\ Deg(Val(a)) < c2
      [] Branch(a, e) = "el" ->
           IF w = "rise" THEN c1 < Deg(Val(e)) /\ Deg(Val(e)) < c2
           ELSE IF w = "set" THEN c2 < Deg(Val(e)) /\ Deg(Val(e)) < c1
           ELSE FALSE
      [] OTHER -> FALSE

\* the break test of a loop body on the sampled pair (c1, c2)
Crossing(a, e, w, c1, c2) ==
    CASE Branch(a, e) = "az" -> c1 <= Deg(Val(a)) /\ Deg(Val(a)) <= c2
      [] Branch(a, e) = "el" ->
           IF w = "rise" THEN c1 <= Deg(Val(e)) /\ Deg(Val(e)) <= c2
           ELSE IF w = "set" THEN c2 <= Deg(Val(e)) /\ Deg(Val(e)) <= c1
           ELSE FALSE
      [] OTHER -> FALSE

\* Breaks with c2 sampled at time + bigdt in every loop
Breaks_BigStep(t, dt) ==
    Crossing(az, el, way, Channel(source, t, Branch(az, el)),
                          Channel(source, t + bigdt, Branch(az, el)))

\* the break test of the loop with step dt, at instant t
Breaks(t, dt) ==
    Crossing(az, el, way, Channel(source, t, Branch(az, el)),
                          Channel(source, t + dt, Branch(az, el)))

\* the loop conditions: time <= time + dt
CoarseCond(t) == t <= t + day
MidCond(t) == t <= t + bigdt
FineCond(t) == t <= t + middt

\* ReturnValue without the half step: time itself
ReturnValue_Start(t) == 2 * t

\* ReturnValue without the division by 2: time + smalldt
ReturnValue_End(t) == 2 * (t + smalldt)

\* the value returned: time + smalldt/2, in half seconds
ReturnValue(t) == 2 * t + smalldt

Init ==
    /\ source \in Sources
    /\ tstart \in Starts
    /\ fn = "none"
    /\ az = None /\ el = None /\ way = "rise"
    /\ pc = "idle"
    /\ time = tstart
    /\ nCoarse = 0 /\ nMid = 0 /\ nFine = 0 /\ calls = 0
    /\ tCoarse = tstart /\ tMid = tstart
    /\ transit_time = 0
    /\ done = {}

\* entry into getTransit(source, time, loc, az, el, way): lines 237-239
Enter(f, a, e, w) ==
    /\ pc = "idle"
    /\ Cardinality(done) < MaxCalls
    /\ fn' = f /\ az' = a /\ el' = e /\ way' = w
    /\ pc' = "assert"
    /\ time' = tstart
    /\ nCoarse' = 0 /\ nMid' = 0 /\ nFine' = 0 /\ calls' = 0
    /\ tCoarse' = tstart /\ tMid' = tstart
    /\ transit_time' = 0
    /\ UNCHANGED <<source, tstart, done>>

getTransit == \E args \in Args : Enter("getTransit", args[1], args[2], args[3])
riseTime == Enter("riseTime", None, Some(0), "rise")
setTime == Enter("setTime", None, Some(0), "set")
\* meridianTime with the azimuth of due north
meridianTime_North == Enter("meridianTime", Some(0), None, "rise")
meridianTime == Enter("meridianTime", Some(180), None, "rise")

\* line 241
AssertWay ==
    /\ pc = "assert"
    /\ pc' = IF way = "rise" \/ way = "set" THEN "coarse" ELSE "AssertionError"
    /\ UNCHANGED <<source, tstart, fn, az, el, way, time, nCoarse, nMid, nFine,
                   calls, tCoarse, tMid, transit_time, done>>

\* lines 245-262, one iteration that samples and does not break
CoarseStep ==
    /\ pc = "coarse" /\ CoarseCond(time) /\ nCoarse < MaxCoarse
    /\ Branch(az, el) # "else"
    /\ ~Breaks(time, bigdt)
    /\ time' = time + bigdt
    /\ nCoarse' = nCoarse + 1
    /\ calls' = calls + 2
    /\ UNCHANGED <<source, tstart, fn, az, el, way, pc, nMid, nFine,
                   tCoarse, tMid, transit_time, done>>

\* lines 245-262, the iteration that breaks
CoarseBreak ==
    /\ pc = "coarse" /\ CoarseCond(time) /\ nCoarse < MaxCoarse
    /\ Branch(az, el) # "else"
    /\ Breaks(time, bigdt)
    /\ pc' = "mid"
    /\ tCoarse' = time
    /\ nCoarse' = nCoarse + 1
    /\ calls' = calls + 2
    /\ UNCHANGED <<source, tstart, fn, az, el, way, time, nMid, nFine,
                   tMid, transit_time, done>>

\* lines 260-261
CoarseElse ==
    /\ pc = "coarse" /\ CoarseCond(time)
    /\ Branch(az, el) = "else"
    /\ pc' = "ValueError"
    /\ UNCHANGED <<source, tstart, fn, az, el, way, time, nCoarse, nMid, nFine,
                   calls, tCoarse, tMid, transit_time, done>>

\* lines 266-281
MidStep ==
    /\ pc = "mid" /\ MidCond(time) /\ nMid < MaxMid
    /\ ~Breaks(time, middt)
    /\ time' = time + middt
    /\ nMid' = nMid + 1
    /\ calls' = calls + 2
    /\ UNCHANGED <<source, tstart, fn, az, el, way, pc, nCoarse, nFine,
                   tCoarse, tMid, transit_time, done>>

MidBreak ==
    /\ pc = "mid" /\ MidCond(time) /\ nMid < MaxMid
    /\ Breaks(time, middt)
    /\ pc' = "fine"
    /\ tMid' = time
    /\ nMid' = nMid + 1
    /\ calls' = calls + 2
    /\ UNCHANGED <<source, tstart, fn, az, el, way, time, nCoarse, nFine,
                   tCoarse, transit_time, done>>

\* lines 285-300
FineStep ==
    /\ pc = "fine" /\ FineCond(time) /\ nFine < MaxFine
    /\ ~Breaks(time, smalldt)
    /\ time' = time + smalldt
    /\ nFine' = nFine + 1
    /\ calls' = calls + 2
    /\ UNCHANGED <<source, tstart, fn, az, el, way, pc, nCoarse, nMid,
                   tCoarse, tMid, transit_time, done>>

\* lines 285-302: the iteration that breaks, and the return
FineBreak ==
    /\ pc = "fine" /\ FineCond(time) /\ nFine < MaxFine
    /\ Breaks(time, smalldt)
    /\ pc' = "returned"
    /\ transit_time' = ReturnValue(time)
    /\ nFine' = nFine + 1
    /\ calls' = calls + 2
    /\ UNCHANGED <<source, tstart, fn, az, el, way, time, nCoarse, nMid,
                   tCoarse, tMid, done>>

\* what the caller of fn receives: the instant returned (the wrappers return
\* getTransit's value, lines 340, 378, 415) or the exception raised
Outcome ==
    [fn |-> fn, az |-> az, el |-> el, way |-> way,
     kind |-> pc, value |-> transit_time]

Finish ==
    /\ pc \in {"returned", "ValueError", "AssertionError"}
    /\ done' = done \cup {Outcome}
    /\ pc' = "idle"
    /\ fn' = "none"
    /\ az' = None /\ el' = None /\ way' = "rise"
    /\ time' = tstart
    /\ nCoarse' = 0 /\ nMid' = 0 /\ nFine' = 0 /\ calls' = 0
    /\ tCoarse' = tstart /\ tMid' = tstart
    /\ transit_time' = 0
    /\ UNCHANGED <<source, tstart>>

Next ==
    \/ getTransit
    \/ riseTime
    \/ setTime
    \/ meridianTime
    \/ AssertWay
    \/ CoarseStep
    \/ CoarseBreak
    \/ CoarseElse
    \/ MidStep
    \/ MidBreak
    \/ FineStep
    \/ FineBreak
    \/ Finish

Spec == Init /\ [][Next]_vars

(* ======================================================================= *)
(* Properties                                                              *)
(* ======================================================================= *)
\* the step counts of the schedule: 48 coarse, 6 mid, 60 fine
CoarseSteps == day \div bigdt
MidSteps == bigdt \div middt
FineSteps == middt \div smalldt

InQuery == pc \in {"coarse", "mid", "fine", "returned"}
Searching == InQuery /\ Branch(az, el) # "else"
Returned == pc = "returned"
alt0 == getAltaz(source, tstart).alt

\* the crossing test as the specification words it, on the interval [t, t+dt]
Brackets(t, dt) ==
    LET b  == Branch(az, el)
        c1 == Channel(source, t, b)
        c2 == Channel(source, t + dt, b)
    IN  \/ b = "az" /\ c1 <= Deg(Val(az)) /\ Deg(Val(az)) <= c2
        \/ b = "el" /\ way = "rise" /\ c1 <= Deg(Val(el)) /\ Deg(Val(el)) <= c2
        \/ b = "el" /\ way = "set" /\ c2 <= Deg(Val(el)) /\ Deg(Val(el)) <= c1

\* no coarse step k in 0..47 brackets a crossing
NoCoarseCrossing ==
    \A k \in 0..(CoarseSteps - 1) : ~Brackets(tstart + k * bigdt, bigdt)

\* C1: when no coarse step k in 0..47 brackets a crossing, the coarse pass
\* ends within 48 steps: it never takes a 49th step and never moves the
\* search instant past start + 24 h.
C1_CoarsePassBounded ==
    (Searching /\ NoCoarseCrossing) =>
        /\ nCoarse <= CoarseSteps
        /\ time <= tstart + day

\* C2: a returned instant lies in [start, start + 24 h] and its bracket is the
\* earliest one: no sampled interval before it, at or after start, satisfies
\* the crossing test.
C2_EarliestWithinHorizon ==
    Returned =>
        /\ 2 * tstart <= transit_time
        /\ transit_time <= 2 * (tstart + day)
        /\ \A k \in 0..MaxCoarse :
             tstart + k * bigdt < tCoarse => ~Brackets(tstart + k * bigdt, bigdt)
        /\ \A i \in 0..MaxMid :
             tCoarse + i * middt < tMid => ~Brackets(tCoarse + i * middt, middt)
        /\ \A j \in 0..MaxFine :
             tMid + j * smalldt < time => ~Brackets(tMid + j * smalldt, smalldt)

\* C3: a returned instant is t'' + 2.5 s, where the crossing test holds on the
\* sampled interval [t'', t'' + 5 s].
C3_ReturnIsMidOfFineBracket ==
    Returned =>
        /\ transit_time = 2 * time + 5
        /\ Brackets(time, 5)

C3_Witness ==
    /\ Returned /\ Branch(az, el) = "el" /\ way = "set"
    /\ nCoarse > 1 /\ nMid > 1 /\ nFine > 1

BothOrNeither(a, e) == (a # None /\ e # None) \/ (a = None /\ e = None)

\* C4: a query with both or neither of az and el raises ValueError before the
\* evaluator is sampled, and never returns an instant.
C4_BothOrNeitherRejected ==
    /\ (fn # "none" /\ BothOrNeither(az, el) /\ way \in {"rise", "set"}) =>
          /\ pc \in {"assert", "coarse", "ValueError"}
          /\ calls = 0
          /\ time = tstart
          /\ transit_time = 0
          /\ pc = "coarse" => ENABLED CoarseElse
    /\ \A r \in done :
          (BothOrNeither(r.az, r.el) /\ r.way \in {"rise", "set"}) =>
              r.kind = "ValueError"

C4_Witness ==
    \E r \in done : r.az # None /\ r.el # None /\ r.kind = "ValueError"

\* C5 as stated: an azimuth query with way = 'set' is rejected, the search
\* does not run and no instant is returned.
C5_AzSetRejected ==
    (fn # "none" /\ az # None /\ el = None /\ way = "set") =>
        /\ pc \in {"assert", "coarse", "ValueError"}
        /\ calls = 0

\* C5 amended: an azimuth query with way = 'set' is not rejected; way is
\* ignored, the search looks for the ascending bracket c1 <= az <= c2 and
\* gives the outcome of the same query with way = 'rise'.
C5_AzIgnoresWay ==
    /\ (fn # "none" /\ az # None /\ el = None /\ way = "set") =>
          /\ pc \notin {"ValueError", "AssertionError"}
          /\ Returned =>
               /\ Channel(source, time, "az") <= Deg(Val(az))
               /\ Deg(Val(az)) <= Channel(source, time + smalldt, "az")
    /\ \A r, s \in done :
          (r.az # None /\ r.el = None /\ s.az = r.az /\ s.el = None
             /\ r.way = "rise" /\ s.way = "set") =>
              (r.kind = s.kind /\ r.value = s.value)

C5_Witness ==
    \E r, s \in done :
        /\ r.fn = "getTransit" /\ s.fn = "getTransit"
        /\ r.az # None /\ r.el = None /\ s.az = r.az /\ s.el = None
        /\ r.way = "rise" /\ s.way = "set" /\ s.kind = "returned"

\* C6: a query takes at most 48 coarse, 6 mid and 60 fine steps, 114 in all.
C6_StepBudget ==
    Searching =>
        /\ nCoarse <= CoarseSteps
        /\ nMid <= MidSteps
        /\ nFine <= FineSteps
        /\ nCoarse + nMid + nFine <= CoarseSteps + MidSteps + FineSteps

\* the arguments each wrapper fixes
Fixed(f) ==
    CASE f = "riseTime" -> <<None, Some(0), "rise">>
      [] f = "setTime" -> <<None, Some(0), "set">>
      [] f = "meridianTime" -> <<Some(180), None, "rise">>

Wrappers == {"riseTime", "setTime", "meridianTime"}

C8_RiseSetOrdering ==
    \A r, s \in done :
        (r.fn = "riseTime" /\ s.fn = "setTime"
           /\ r.kind = "returned" /\ s.kind = "returned") =>
            /\ alt0 > 0 => s.value < r.value
            /\ alt0 < 0 => r.value < s.value

C8_Witness ==
    \E r, s \in done :
        /\ r.fn = "riseTime" /\ s.fn = "setTime"
        /\ r.kind = "returned" /\ s.kind = "returned"
        /\ alt0 > 0
        /\ r.value <= 2 * (tstart + day)

Abs(x) == IF x < 0 THEN 0 - x ELSE x

\* C9: for elevation(t) = 45 sin(2 pi (t - t0) / 86400 s) with t0 = 0,
\* riseTime from t0 returns within 2.5 s of t0 and setTime from t0 returns
\* within 2.5 s of t0 + 43200 s.
C9_WorkedExample ==
    (source \in {"sine", "sineFP"} /\ tstart = 0) =>
        /\ fn = "riseTime" => pc \in {"assert", "coarse", "mid", "fine", "returned"}
        /\ fn = "setTime" => pc \in {"assert", "coarse", "mid", "fine", "returned"}
        /\ (fn = "riseTime" /\ InQuery) => time <= tstart + smalldt
        /\ (fn = "setTime" /\ InQuery) => time <= tstart + 43200 + smalldt
        /\ \A r \in done :
             /\ r.fn = "riseTime" =>
                  (r.kind = "returned" /\ Abs(r.value - 2 * tstart) <= 5)
             /\ r.fn = "setTime" =>
                  (r.kind = "returned" /\ Abs(r.value - 2 * (tstart + 43200)) <= 5)

C9_Witness ==
    /\ source = "sine" /\ tstart = 0
    /\ \E r, s \in done : r.fn = "riseTime" /\ s.fn = "setTime"

\* C10: the mid pass samples only inside the coarse bracket and the fine pass
\* only inside the mid bracket, so the mid bracket lies inside the coarse one
\* and the fine bracket inside the mid one.
C10_BracketsNested ==
    /\ pc = "mid" =>
          (tCoarse <= time /\ time + middt <= tCoarse + bigdt)
    /\ pc \in {"fine", "returned"} =>
          /\ tCoarse <= tMid /\ tMid + middt <= tCoarse + bigdt
          /\ tMid <= time /\ time + smalldt <= tMid + middt

C10_Witness ==
    /\ Returned
    /\ tMid = tCoarse + bigdt - middt
    /\ time = tMid + middt - smalldt

\* C11: during a query the search instant is start + 5k s with k >= 0 and no
\* step of the query decreases it; every returned instant is later than start
\* and is start + 5k s + 2.5 s, so a crossing at start itself is reported
\* 2.5 s after start.
C11_SearchInstantOnGrid ==
    /\ [](InQuery => (time >= tstart /\ (time - tstart) % 5 = 0))
    /\ [](Returned => (/\ transit_time > 2 * tstart
                       /\ (transit_time - 2 * tstart) % 10 = 5))
    /\ [](\A r \in done : r.kind = "returned" =>
             (r.value > 2 * tstart /\ (r.value - 2 * tstart) % 10 = 5))
    /\ [][(InQuery /\ InQuery') => time' >= time]_vars

\* a crossing exactly at start (the rising zero of the sine at t0 = 0) is
\* returned as start + 2.5 s, after steps of all three sizes were taken by
\* an earlier query
C11_Witness ==
    /\ source = "sine" /\ tstart = 0
    /\ \E r \in done : r.fn = "riseTime" /\ r.value = 2 * tstart + 5
    /\ Returned /\ nCoarse > 1 /\ nMid > 1 /\ nFine > 1

====
